---- MODULE Spec2Model ----
(***************************************************************************)
(* Span recovery of uie/extraction/predict_parser/utils.py.                *)
(*                                                                         *)
(* A string is a sequence of symbols.  A symbol is one character, except   *)
(* "<unk>", the default placeholder marker, which is kept as one symbol     *)
(* (no other symbol of the alphabets is a piece of it, so splitting on the *)
(* symbol is splitting on the five characters), and "_", which stands for  *)
(* the word-boundary marker U+2581 of the token strings.  Positions are    *)
(* Python's: 0-based offsets, slices half-open.                            *)
(***************************************************************************)
EXTENDS Integers, Sequences, FiniteSets, TLC

\* ---------------------------------------------------------------- strings

Whitespace == {" "}

\* str[::-1]
RECURSIVE Reverse(_)
Reverse(s) == IF s = <<>> THEN <<>> ELSE Append(Reverse(Tail(s)), Head(s))

\* str.lstrip()
RECURSIVE LStrip(_)
LStrip(s) == IF s # <<>> /\ Head(s) \in Whitespace THEN LStrip(Tail(s)) ELSE s

\* str.strip()
Strip(s) == Reverse(LStrip(Reverse(LStrip(s))))

\* s[a:b] for 0 <= a, b (Python clamps the ends; a >= b gives "")
Slice(s, a, b) ==
    LET hi == IF b > Len(s) THEN Len(s) ELSE b
    IN  IF a >= hi THEN <<>> ELSE SubSeq(s, a + 1, hi)

\* s.startswith(p, i), i a 0-based offset
StartsAt(s, p, i) ==
    /\ i + Len(p) <= Len(s)
    /\ \A k \in 1..Len(p) : s[i + k] = p[k]

\* s.find(sub): the least offset where sub occurs, -1 when it does not
Find(s, sub) ==
    LET hits == {i \in 0..Len(s) : StartsAt(s, sub, i)}
    IN  IF hits = {} THEN -1 ELSE CHOOSE i \in hits : \A j \in hits : i <= j

\* sub in s
Contains(s, sub) == Find(s, sub) # -1

\* s.split(sep), sep non-empty: the pieces between the occurrences of sep,
\* taken left to right without overlap
RECURSIVE Split(_, _)
Split(s, sep) ==
    LET i == Find(s, sep)
    IN  IF i = -1 THEN <<s>>
        ELSE <<Slice(s, 0, i)>> \o Split(Slice(s, i + Len(sep), Len(s)), sep)

\* sep.join(parts)
RECURSIVE Join(_, _)
Join(sep, parts) ==
    IF parts = <<>> THEN <<>>
    ELSE IF Len(parts) = 1 THEN parts[1]
    ELSE parts[1] \o sep \o Join(sep, Tail(parts))

\* ------------------------------------------------------------------ regex

\* sp = ".*?()[]+" of clean_wildcard
sp == {".", "*", "?", "(", ")", "[", "]", "+"}

\* clean_wildcard: a backslash in front of every character of sp
RECURSIVE clean_wildcard(_)
clean_wildcard(x) ==
    IF x = <<>> THEN <<>>
    ELSE (IF Head(x) \in sp THEN <<"\\", Head(x)>> ELSE <<Head(x)>>)
         \o clean_wildcard(Tail(x))

\* r'\s*\S+\s*' and r'\s*\S+?\s*'
Greedy == <<"\\", "s", "*", "\\", "S", "+", "\\", "s", "*">>
Lazy == <<"\\", "s", "*", "\\", "S", "+", "?", "\\", "s", "*">>

\* Letters that may follow a backslash in a pattern built from the alphabets
\* of this model, with what re makes of them: \s and \S are the classes,
\* \a is the BEL character (which no text of the model holds).  A backslash
\* in front of a non-alphanumeric character makes it a literal; a backslash
\* that ends the pattern is re.error("bad escape (end of pattern)").
Bel == "BEL"

\* One parsed item of a pattern: t the kind ("lit" a literal c, "any" the
\* dot, "ws" \s, "nws" \S, "eol" the $ anchor), q the quantifier ("1" none,
\* "*", "+" greedy, "+?" lazy).
Item(t, c, q) == [t |-> t, c |-> c, q |-> q]

\* The quantifier that starts at index j of pattern p, and its length
QuantAt(p, j) ==
    IF j > Len(p) THEN <<"1", 0>>
    ELSE IF p[j] = "*" THEN <<"*", 1>>
    ELSE IF p[j] = "+" THEN
        (IF j + 1 <= Len(p) /\ p[j + 1] = "?" THEN <<"+?", 2>> ELSE <<"+", 1>>)
    ELSE <<"1", 0>>

\* What Compile gives where re raises re.error
ParseError == <<Item("error", "", "1")>>

IsError(els) == els # <<>> /\ els[1].t = "error"

\* re.compile(p): the items of p, or ParseError where re raises re.error.
\* ParseFrom(p, i) parses p from index i on.
RECURSIVE ParseFrom(_, _)
ParseFrom(p, i) ==
    IF i > Len(p) THEN <<>>
    ELSE
      LET ch == p[i]
          esc == ch = "\\"
          bad == \/ esc /\ i = Len(p)
                 \/ ~esc /\ ch \in {"*", "+", "?"}
          j  == IF esc THEN i + 2 ELSE i + 1
          d  == IF esc /\ i < Len(p) THEN p[i + 1] ELSE ch
          kind == IF esc THEN (IF d = "s" THEN "ws"
                               ELSE IF d = "S" THEN "nws" ELSE "lit")
                  ELSE IF ch = "." THEN "any"
                  ELSE IF ch = "$" THEN "eol" ELSE "lit"
          c  == IF esc /\ d = "a" THEN Bel ELSE d
          qn == QuantAt(p, j)
          rest == ParseFrom(p, j + qn[2])
      IN  IF bad THEN ParseError
          ELSE IF IsError(rest) THEN ParseError
          ELSE <<Item(kind, c, qn[1])>> \o rest

Compile(p) == ParseFrom(p, 1)

\* Whether item e accepts character ch
Accepts(e, ch) ==
    CASE e.t = "lit" -> ch = e.c
      [] e.t = "any" -> TRUE
      [] e.t = "ws"  -> ch \in Whitespace
      [] e.t = "nws" -> ch \notin Whitespace
      [] OTHER -> FALSE

\* The longest run of characters of s from offset pos on that e accepts
RECURSIVE Run(_, _, _)
Run(e, s, pos) ==
    IF pos < Len(s) /\ Accepts(e, s[pos + 1]) THEN 1 + Run(e, s, pos + 1) ELSE 0

\* The backtracking matcher of re: MatchFrom(els, k, s, pos) is the end offset
\* of the match re finds for items k.. of els at offset pos of s, the
\* alternatives tried in re's order (a greedy repeat from the longest run
\* down, a lazy one from the shortest up), or -1 when none matches.
RECURSIVE MatchFrom(_, _, _, _), TryRepeat(_, _, _, _, _, _, _)
MatchFrom(els, k, s, pos) ==
    IF k > Len(els) THEN pos
    ELSE
      LET e == els[k]
      IN  IF e.t = "eol" THEN
              (IF pos = Len(s) THEN MatchFrom(els, k + 1, s, pos) ELSE -1)
          ELSE IF e.q = "1" THEN
              (IF pos < Len(s) /\ Accepts(e, s[pos + 1])
               THEN MatchFrom(els, k + 1, s, pos + 1) ELSE -1)
          ELSE
              LET max == Run(e, s, pos)
                  min == IF e.q = "*" THEN 0 ELSE 1
              IN  IF e.q = "+?" THEN TryRepeat(els, k, s, pos, min, max, 1)
                  ELSE TryRepeat(els, k, s, pos, max, min, -1)

\* Repeat counts n, n + step, ... up to last, the first that lets the rest match
TryRepeat(els, k, s, pos, n, last, step) ==
    IF (step = 1 /\ n > last) \/ (step = -1 /\ n < last) THEN -1
    ELSE LET r == MatchFrom(els, k + 1, s, pos + n)
         IN  IF r # -1 THEN r
             ELSE TryRepeat(els, k, s, pos, n + step, last, step)

\* re.search on compiled items: the match at the least start offset, as
\* <<start, end>>, or <<>> for None
RECURSIVE SearchFrom(_, _, _)
SearchFrom(els, s, start) ==
    IF start > Len(s) THEN <<>>
    ELSE LET r == MatchFrom(els, 1, s, start)
         IN  IF r # -1 THEN <<start, r>> ELSE SearchFrom(els, s, start + 1)

\* re.search(p, s): [err |-> TRUE] where re.compile raises, else the match
re_search(p, s) ==
    LET els == Compile(p)
    IN  IF IsError(els) THEN [err |-> TRUE, m |-> <<>>]
        ELSE [err |-> FALSE, m |-> SearchFrom(els, s, 0)]

\* match.group()
Group(s, m) == Slice(s, m[1], m[2])

\* ------------------------------------------------------------ the program

\* unk='<unk>', the default of every function of the module
unk == <<"<unk>">>

\* The word-boundary marker that match_sublist removes from a token string
Marker == "_"

VARIABLES
    span,             \* the generated span
    text,             \* the raw text
    tokenizer,        \* the tokenizer argument: given or None, and what
                      \* tokenizer(text, return_offsets_mapping=True) gives
    pc,               \* where the call stands
    matched,          \* fix_unk_from_text_with_tokenizer's matched
    result,           \* fix_unk_from_text_without_tokenizer's result
    result_reversed,  \* fix_unk_from_text_without_tokenizer's result_reversed
    ret               \* how the call ended: a returned string or an exception

vars == <<span, text, tokenizer, pc, matched, result, result_reversed, ret>>

None == <<>>
Pending == [kind |-> "pending", val |-> <<>>]
Return(s) == [kind |-> "return", val |-> s]
Raise(exc) == [kind |-> "raise", val |-> <<exc>>]

\* tokenizer.vocab restricted to the tokens of the encoded text: token
\* string -> id, the id being the index of the token's first occurrence
vocab(tokens) ==
    [t \in {tokens[i] : i \in 1..Len(tokens)} |->
        CHOOSE i \in 1..Len(tokens) :
            tokens[i] = t /\ \A j \in 1..(i - 1) : tokens[j] # t]

\* tokenized["input_ids"]
input_ids(tokens) == [i \in 1..Len(tokens) |-> vocab(tokens)[tokens[i]]]

\* id2token = {v: k for k, v in tokenizer.vocab.items()}
id2token(tokens) ==
    LET v == vocab(tokens)
    IN  [n \in {v[t] : t \in DOMAIN v} |-> CHOOSE t \in DOMAIN v : v[t] = n]

\* id2token[tid].replace(marker, "")
RECURSIVE RemoveMarker(_)
RemoveMarker(token) ==
    IF token = <<>> THEN <<>>
    ELSE (IF Head(token) = Marker THEN <<>> ELSE <<Head(token)>>)
         \o RemoveMarker(Tail(token))

\* The loop of match_sublist from token i on: <<decoded_text,
\* decoded_offset_mapping>>, the second holding for every character of the
\* first the 0-based index of the token it came from
RECURSIVE Decode(_, _, _)
Decode(the_list, i2t, i) ==
    IF i > Len(the_list) THEN << <<>>, <<>> >>
    ELSE LET token == RemoveMarker(i2t[the_list[i]])
             rest  == Decode(the_list, i2t, i + 1)
         IN  << token \o rest[1],
                [k \in 1..Len(token) |-> i - 1] \o rest[2] >>

\* list[i] of Python for a 0-based i that may be negative; <<>> when i is out
\* of range (IndexError), else <<the element>>
PyGet(list, i) ==
    LET j == IF i < 0 THEN i + Len(list) ELSE i
    IN  IF j < 0 \/ j >= Len(list) THEN <<>> ELSE <<list[j + 1]>>

\* match_sublist: Return(None), Return(<<start, end>>) or Raise("IndexError")
match_sublist(the_list, to_match, i2t) ==
    LET dec   == Decode(the_list, i2t, 1)
        index == Find(dec[1], to_match)
        first == PyGet(dec[2], index)
        last  == PyGet(dec[2], index + Len(to_match) - 1)
    IN  IF index = -1 THEN Return(None)
        ELSE IF first = <<>> \/ last = <<>> THEN Raise("IndexError")
        ELSE Return(<<first[1], last[1]>>)

\* [clean_wildcard(item.strip()) for item in span.split(unk)] joined by the
\* greedy connector (lines 71 and 114)
ForwardPattern(s, u) ==
    LET items == Split(s, u)
    IN  Join(Greedy, [k \in 1..Len(items) |-> clean_wildcard(Strip(items[k]))])

\* The reverse pattern with the fragments left in the span's order
ReversePattern_order(s, u) ==
    LET items == Split(s, u)
    IN  Join(Lazy, [k \in 1..Len(items) |->
                       clean_wildcard(Reverse(Strip(items[k])))])

\* The reverse pattern with the greedy connector
ReversePattern_greedy(s, u) ==
    LET items == Split(s, u)
    IN  Join(Greedy, Reverse([k \in 1..Len(items) |->
                                 clean_wildcard(Reverse(Strip(items[k])))]))

\* [clean_wildcard(item.strip()[::-1]) for item in span.split(unk)][::-1]
\* joined by the lazy connector (line 117)
ReversePattern(s, u) ==
    LET items == Split(s, u)
    IN  Join(Lazy, Reverse([k \in 1..Len(items) |->
                               clean_wildcard(Reverse(Strip(items[k])))]))

\* Lines 17-23: the dispatcher
fix_unk_from_text ==
    /\ pc = "call"
    /\ pc' = IF tokenizer.given THEN "with_tokenizer" ELSE "without_tokenizer"
    /\ UNCHANGED <<span, text, tokenizer, matched, result, result_reversed, ret>>

\* Lines 56-65: encode the text and look the span up in the decoded tokens
with_tokenizer_match ==
    /\ pc = "with_tokenizer"
    /\ LET m == match_sublist(input_ids(tokenizer.tokens), span,
                              id2token(tokenizer.tokens))
       IN  IF m.kind = "raise"
           THEN /\ ret' = m
                /\ pc' = "done"
                /\ UNCHANGED matched
           ELSE /\ matched' = m.val
                /\ pc' = "matched"
                /\ UNCHANGED ret
    /\ UNCHANGED <<span, text, tokenizer, result, result_reversed>>

\* Lines 66-67 as they would be with "return span" for the fallback
with_tokenizer_fallback_span ==
    /\ pc = "matched"
    /\ matched = None
    /\ ret' = Return(span)
    /\ pc' = "done"
    /\ UNCHANGED <<span, text, tokenizer, matched, result, result_reversed>>

\* Lines 66-67: nothing matched, the tokenizer-free path takes over
with_tokenizer_fallback ==
    /\ pc = "matched"
    /\ matched = None
    /\ pc' = "without_tokenizer"
    /\ UNCHANGED <<span, text, tokenizer, matched, result, result_reversed, ret>>

\* What lines 69-75 return or raise for a match <<start, end>> of tokens
Refine(s, t, offset_mapping, m) ==
    LET true_offset == <<offset_mapping[m[1] + 1][1], offset_mapping[m[2] + 1][2]>>
        fixed_span  == Slice(t, true_offset[1], true_offset[2])
        found       == re_search(ForwardPattern(s, unk), fixed_span)
    IN  IF found.err THEN Raise("re.error")
        ELSE IF found.m = None THEN Return(s)
        ELSE Return(Strip(Group(fixed_span, found.m)))

\* Lines 69-75: the region of the text the matched tokens cover, refined
with_tokenizer_refine ==
    /\ pc = "matched"
    /\ matched # None
    /\ ret' = Refine(span, text, tokenizer.offset_mapping, matched)
    /\ pc' = "done"
    /\ UNCHANGED <<span, text, tokenizer, matched, result, result_reversed>>

\* Lines 109-110: a span without the placeholder is returned as it is
without_tokenizer_check ==
    /\ pc = "without_tokenizer"
    /\ IF ~Contains(span, unk)
       THEN /\ ret' = Return(span)
            /\ pc' = "done"
       ELSE /\ pc' = "forward"
            /\ UNCHANGED ret
    /\ UNCHANGED <<span, text, tokenizer, matched, result, result_reversed>>

\* Lines 114-115: the forward search
without_tokenizer_forward ==
    /\ pc = "forward"
    /\ LET found == re_search(ForwardPattern(span, unk), text)
       IN  IF found.err
           THEN /\ ret' = Raise("re.error")
                /\ pc' = "done"
                /\ UNCHANGED result
           ELSE /\ result' = found.m
                /\ pc' = "reverse"
                /\ UNCHANGED ret
    /\ UNCHANGED <<span, text, tokenizer, matched, result_reversed>>

\* Lines 117-118: the reverse search, on the reversed text
without_tokenizer_reverse ==
    /\ pc = "reverse"
    /\ LET found == re_search(ReversePattern(span, unk), Reverse(text))
       IN  IF found.err
           THEN /\ ret' = Raise("re.error")
                /\ pc' = "done"
                /\ UNCHANGED result_reversed
           ELSE /\ result_reversed' = found.m
                /\ pc' = "return"
                /\ UNCHANGED ret
    /\ UNCHANGED <<span, text, tokenizer, matched, result>>

\* What lines 119-121 return, with the .strip() of line 121 lost
Recovered_nostrip(s, t, rr) ==
    IF rr = None THEN s ELSE Reverse(Group(Reverse(t), rr))

\* What lines 119-121 return
Recovered(s, t, rr) ==
    IF rr = None THEN s ELSE Strip(Reverse(Group(Reverse(t), rr)))

\* fix_unk_from_text_without_tokenizer(s, t, u) as one value: what the steps
\* without_tokenizer_check .. without_tokenizer_return end in
fix_unk_from_text_without_tokenizer(s, t, u) ==
    IF ~Contains(s, u) THEN Return(s)
    ELSE LET fwd == re_search(ForwardPattern(s, u), t)
             rev == re_search(ReversePattern(s, u), Reverse(t))
         IN  IF fwd.err \/ rev.err THEN Raise("re.error")
             ELSE Return(Recovered(s, t, rev.m))

\* Lines 119-121
without_tokenizer_return ==
    /\ pc = "return"
    /\ ret' = Return(Recovered(span, text, result_reversed))
    /\ pc' = "done"
    /\ UNCHANGED <<span, text, tokenizer, matched, result, result_reversed>>

\* ------------------------------------------------------------- the inputs

\* Bounds of the model: the longest span and text of Spec, and of SpecFree
MaxSpanLen == 2
MaxTextLen == 3
MaxFreeSpanLen == 3
MaxFreeTextLen == 3

\* The strings over alphabet A of at most n symbols
RECURSIVE Strs(_, _)
Strs(A, n) ==
    IF n = 0 THEN {<<>>}
    ELSE LET shorter == Strs(A, n - 1)
         IN  shorter \cup {Append(s, c) : s \in shorter, c \in A}

\* Symbols of the spans and texts of Spec: a letter, whitespace, two characters
\* clean_wildcard leaves alone though re gives them a meaning ($ and the
\* backslash), the placeholder, and a character the vocabulary lacks
SpanAlphabet == {"a", " ", "$", "\\", "<unk>"}
TextAlphabet == {"a", " ", "$", "x"}

\* Symbols of the spans and texts of SpecFree: a letter, whitespace, a
\* character clean_wildcard escapes, the placeholder, and a second letter
\* that only the text holds
FreeSpanAlphabet == {"a", " ", ".", "<unk>"}
FreeTextAlphabet == {"a", " ", ".", "x"}

\* The characters the tokenizer's vocabulary lacks: it encodes a piece of
\* text that holds one as its unknown token, whose string is "<unk>"
OutOfVocabulary == {"x"}

\* The token string for text[s:e]: "<unk>" for a piece with a character out
\* of vocabulary, else the piece with the word-boundary marker for every
\* whitespace character, and one in front of the first piece
TokenString(t, s, e) ==
    LET piece == Slice(t, s, e)
    IN  IF \E k \in 1..Len(piece) : piece[k] \in OutOfVocabulary THEN unk
        ELSE (IF s = 0 THEN <<Marker>> ELSE <<>>)
             \o [k \in 1..Len(piece) |->
                    IF piece[k] \in Whitespace THEN Marker ELSE piece[k]]

\* tokenizer(text, add_special_tokens=False, return_offsets_mapping=True) for
\* a tokenizer that cuts the text at the offsets of cuts, from offset s on:
\* the pairs <<token string, <<start, end>>>>
RECURSIVE Tokenize(_, _, _)
Tokenize(t, cuts, s) ==
    IF s >= Len(t) THEN <<>>
    ELSE LET ends == {c \in cuts : c > s} \cup {Len(t)}
             e    == CHOOSE c \in ends : \A d \in ends : c <= d
         IN  << <<TokenString(t, s, e), <<s, e>> >> >> \o Tokenize(t, cuts, e)

\* tokenizer=None
NoTokenizer == [given |-> FALSE, tokens |-> <<>>, offset_mapping |-> <<>>]

\* A tokenizer, as what it makes of text t
Tokenizer(t, cuts) ==
    LET enc == Tokenize(t, cuts, 0)
    IN  [given |-> TRUE,
         tokens |-> [i \in 1..Len(enc) |-> enc[i][1]],
         offset_mapping |-> [i \in 1..Len(enc) |-> enc[i][2]]]

Locals ==
    /\ pc = "call"
    /\ matched = None
    /\ result = None
    /\ result_reversed = None
    /\ ret = Pending

\* A call fix_unk_from_text(span, text, tokenizer=...)
Init ==
    /\ span \in Strs(SpanAlphabet, MaxSpanLen)
    /\ text \in Strs(TextAlphabet, MaxTextLen)
    /\ tokenizer \in {NoTokenizer}
           \cup {Tokenizer(text, cuts) : cuts \in SUBSET (1..(Len(text) - 1))}
    /\ Locals

\* A call fix_unk_from_text(span, text)
InitFree ==
    /\ span \in Strs(FreeSpanAlphabet, MaxFreeSpanLen)
    /\ text \in Strs(FreeTextAlphabet, MaxFreeTextLen)
    /\ tokenizer = NoTokenizer
    /\ Locals

NextFree ==
    \/ fix_unk_from_text
    \/ without_tokenizer_check
    \/ without_tokenizer_forward
    \/ without_tokenizer_reverse
    \/ without_tokenizer_return

Next ==
    \/ NextFree
    \/ with_tokenizer_match
    \/ with_tokenizer_fallback
    \/ with_tokenizer_refine

Spec == Init /\ [][Next]_vars

SpecFree == InitFree /\ [][NextFree]_vars

\* ------------------------------------------------------------- the claims
\* What follows is the vocabulary of the claims (literal matching of the
\* fragments, independent of re) and the claims themselves.

\* The literal fragments of the span: the pieces between the placeholders,
\* each trimmed
Fragments ==
    LET items == Split(span, unk)
    IN  [k \in 1..Len(items) |-> Strip(items[k])]

\* The characters re gives a meaning that clean_wildcard does not escape
Unescaped == {"\\", "^", "$", "|", "{", "}"}

RegexSpecial == sp \cup Unescaped

Chars(s) == {s[k] : k \in 1..Len(s)}

AllIn(s, a, b, S) == \A k \in (a + 1)..b : s[k] \in S

NoOuterWhitespace(s) ==
    s = <<>> \/ (s[1] \notin Whitespace /\ s[Len(s)] \notin Whitespace)

Max(S) == CHOOSE x \in S : \A y \in S : y <= x

\* The offsets e such that s[pos:e] is optional whitespace, one or more
\* non-whitespace characters (at most most of them), optional whitespace
GapEnds(s, pos, most) ==
    {e \in pos..Len(s) :
        \E i \in pos..e : \E j \in (i + 1)..e :
            /\ j - i <= most
            /\ AllIn(s, pos, i, Whitespace)
            /\ \A k \in (i + 1)..j : s[k] \notin Whitespace
            /\ AllIn(s, j, e, Whitespace)}

\* The offsets where a string that starts at offset pos of s may end when it
\* is the fragments k.. of frags as literal text, in order, with a gap of
\* GapEnds between two neighbours
RECURSIVE LiteralEnds(_, _, _, _, _)
LiteralEnds(frags, k, s, pos, most) ==
    IF ~StartsAt(s, frags[k], pos) THEN {}
    ELSE LET after == pos + Len(frags[k])
         IN  IF k = Len(frags) THEN {after}
             ELSE UNION {LiteralEnds(frags, k + 1, s, e, most) :
                            e \in GapEnds(s, after, most)}

\* The substrings s[i:e], as <<i, e>>, that match the pattern of frags read
\* as literal text
LiteralMatches(frags, s, most) ==
    UNION {{<<i, e>> : e \in LiteralEnds(frags, 1, s, i, most)} : i \in 0..Len(s)}

\* Whether the fragments k.. of frags occur in s from offset pos on, in
\* order and without overlap
RECURSIVE InOrder(_, _, _, _)
InOrder(frags, k, s, pos) ==
    IF k > Len(frags) THEN TRUE
    ELSE LET i == Find(Slice(s, pos, Len(s)), frags[k])
         IN  i # -1 /\ InOrder(frags, k + 1, s, pos + i + Len(frags[k]))

\* decoded_text of match_sublist for the encoded text
DecodedText ==
    Decode(input_ids(tokenizer.tokens), id2token(tokenizer.tokens), 1)[1]

\* The region of the text the reverse match covers, as <<start, end>>
ReturnedRegion ==
    <<Len(text) - result_reversed[2], Len(text) - result_reversed[1]>>

\* C1: a span without the placeholder marker is returned unchanged, with a
\* tokenizer and without one.
C1_PlaceholderFreeUnchanged ==
    (pc = "done" /\ ~Contains(span, unk) /\ ret.kind = "return")
        => ret.val = span

\* C2: a returned string that differs from the span is a contiguous
\* substring of the text and has no leading or trailing whitespace, with a
\* tokenizer and without one.
C2_SubstringInvariant ==
    (pc = "done" /\ ret.kind = "return" /\ ret.val # span)
        => (Contains(text, ret.val) /\ NoOuterWhitespace(ret.val))

C2_Witness ==
    /\ pc = "done"
    /\ tokenizer.given
    /\ matched # None
    /\ ret.kind = "return"
    /\ ret.val # span
    /\ Len(ret.val) >= 2

\* C3: the result of recovery (here: without a tokenizer) holds every
\* literal fragment of the span as literal text, in the span's order and
\* without overlap.
C3_FragmentOrder ==
    (pc = "done" /\ ~tokenizer.given /\ ret.kind = "return")
        => InOrder(Fragments, 1, ret.val, 0)

\* C4: without a tokenizer, when no substring of the text is the fragments in
\* order joined by gaps of optional whitespace, non-whitespace characters
\* and optional whitespace, and no substring of the reversed text is the
\* reversed fragments so joined, the string returned is the span unchanged
\* (a call that ends in an error is C5's matter).
C4_NoMatchFallback ==
    (/\ pc = "done"
     /\ ret.kind = "return"
     /\ ~tokenizer.given
     /\ Contains(span, unk)
     /\ LiteralMatches(Fragments, text, Len(text)) = {}
     /\ LiteralMatches(
            Reverse([k \in 1..Len(Fragments) |-> Reverse(Fragments[k])]),
            Reverse(text), Len(text)) = {})
        => ret.val = span

\* C5: every call ends by returning a string, never in an error.
C5_NoFatalError == pc = "done" => ret.kind = "return"

\* The number of offsets of s where sub occurs
Occurrences(s, sub) == Cardinality({i \in 0..Len(s) : StartsAt(s, sub, i)})

\* C6's preconditions on the span: the fragments hold none of \ ^ $ | { };
\* one is non-empty and only the first and the last may be empty; the
\* non-empty ones differ pairwise and occur once each in the text.
C6_Fragments ==
    LET frags == Fragments
        n     == Len(frags)
        full  == {k \in 1..n : frags[k] # <<>>}
    IN  /\ Contains(span, unk)
        /\ \A k \in 1..n : Chars(frags[k]) \cap Unescaped = {}
        /\ full # {}
        /\ \A k \in 2..(n - 1) : k \in full
        /\ \A j, k \in full : j # k => frags[j] # frags[k]
        /\ \A k \in full : Occurrences(text, frags[k]) = 1

\* C6's substrings R = text[m[1]:m[2]], as <<m[1], m[2]>>: the fragments in
\* order with one non-whitespace character, and whitespace next to it at
\* will, for each placeholder; no whitespace at the ends of R; R followed by
\* whitespace or by the end of the text.
C6_Substrings ==
    {m \in LiteralMatches(Fragments, text, 1) :
        /\ text[m[1] + 1] \notin Whitespace
        /\ text[m[2]] \notin Whitespace
        /\ m[2] = Len(text) \/ text[m[2] + 1] \in Whitespace}

\* C6: without a tokenizer, under the preconditions of C6_Fragments, the call
\* returns exactly R for every substring R of C6_Substrings: the substring
\* with one character for each placeholder.
C6_RestoresSingleCharacters ==
    (pc = "done" /\ C6_Fragments) =>
        \A m \in C6_Substrings : ret = Return(Slice(text, m[1], m[2]))

C6_Witness ==
    /\ pc = "done"
    /\ "." \in Chars(span)
    /\ ret.kind = "return"
    /\ ret.val # span
    /\ C6_Fragments
    /\ C6_Substrings # {}

\* C7: with a tokenizer, when the raw span does not occur in the decoded
\* token text, the call ends exactly as the tokenizer-free call on the same
\* span and text ends.
C7_FallbackEquivalence ==
    (pc = "done" /\ tokenizer.given /\ ~Contains(DecodedText, span))
        => ret = fix_unk_from_text_without_tokenizer(span, text, unk)

C7_Witness ==
    /\ pc = "done"
    /\ tokenizer.given
    /\ ~Contains(DecodedText, span)
    /\ ret.kind = "return"
    /\ ret.val # span

\* C8: match_sublist returns "no match" exactly when the target does not
\* occur in the decoded text, and otherwise a pair of token indices
\* 0 <= start <= end < number of tokens, the tokens that produced the first
\* and the last character of the leftmost occurrence, whose decoded text
\* holds the target; this for every token sequence and target, the empty
\* ones included.
C8_SublistResult ==
    LET n     == Len(tokenizer.tokens)
        dec   == Decode(input_ids(tokenizer.tokens),
                        id2token(tokenizer.tokens), 1)
        index == Find(dec[1], span)
        piece == Decode(SubSeq(input_ids(tokenizer.tokens),
                               matched[1] + 1, matched[2] + 1),
                        id2token(tokenizer.tokens), 1)[1]
    IN  /\ (tokenizer.given /\ pc = "done") => ret # Raise("IndexError")
        /\ pc = "matched" =>
            /\ matched = None <=> index = -1
            /\ matched # None =>
                /\ 0 <= matched[1] /\ matched[1] <= matched[2] /\ matched[2] < n
                /\ Contains(piece, span)
                /\ span # <<>> =>
                    /\ matched[1] = dec[2][index + 1]
                    /\ matched[2] = dec[2][index + Len(span)]

\* The case of C9 and C10: the span holds the placeholder, its fragments hold
\* no character that re gives a meaning, and some substring of the text
\* matches the forward pattern
PlainMatchExists ==
    /\ Contains(span, unk)
    /\ \A k \in 1..Len(Fragments) : Chars(Fragments[k]) \cap RegexSpecial = {}
    /\ LiteralMatches(Fragments, text, Len(text)) # {}

\* C9: without a tokenizer, in the case PlainMatchExists, the substring the
\* call returns (before it is trimmed) is a match of the forward pattern
\* that ends at the greatest end offset of all the substrings of the text
\* that match it; it need not be the leftmost forward match.
C9_LastCandidate ==
    (pc = "done" /\ PlainMatchExists) =>
        /\ result_reversed # None
        /\ ReturnedRegion \in LiteralMatches(Fragments, text, Len(text))
        /\ ReturnedRegion[2] =
               Max({m[2] : m \in LiteralMatches(Fragments, text, Len(text))})
        /\ ret = Return(Strip(Slice(text, ReturnedRegion[1], ReturnedRegion[2])))

C9_Witness ==
    /\ pc = "done"
    /\ PlainMatchExists
    /\ result # None
    /\ result_reversed # None
    /\ result # ReturnedRegion

\* The case of C10: the span is the placeholder followed by one non-empty
\* fragment
LeadingPlaceholder ==
    /\ PlainMatchExists
    /\ Len(Fragments) = 2
    /\ Split(span, unk)[1] = <<>>
    /\ Fragments[2] # <<>>

\* C10: without a tokenizer, in the case LeadingPlaceholder, the call returns
\* a substring of the text that is one non-whitespace character, then
\* whitespace only, then the fragment.
C10_LeadingPlaceholderOneCharacter ==
    (pc = "done" /\ LeadingPlaceholder) =>
        LET f   == Fragments[2]
            v   == ret.val
            gap == Len(v) - Len(f)
        IN  /\ ret.kind = "return"
            /\ gap >= 1
            /\ v[1] \notin Whitespace
            /\ AllIn(v, 1, gap, Whitespace)
            /\ Slice(v, gap, Len(v)) = f
            /\ Contains(text, v)

\* The returned region has a non-whitespace character of the text in front
\* of its own first, non-whitespace, character
C10_Witness ==
    /\ pc = "done"
    /\ LeadingPlaceholder
    /\ result_reversed # None
    /\ ReturnedRegion[1] >= 1
    /\ text[ReturnedRegion[1]] \notin Whitespace
    /\ text[ReturnedRegion[1] + 1] \notin Whitespace
====
